---- MODULE Spec2Model ----
(***************************************************************************)
(* Model of the site visual crawler / compare scripts:                     *)
(*   site_visual_crawler_compare.py  (crawl_paths, paths_from_sitemaps,    *)
(*                                    take_screenshot, run_compare)        *)
(*   site_visual_compare_static.py   (same run_compare loop, fixed PATHS)  *)
(* URLs and paths are TLA+ strings; TLC evaluates Len, \o and SubSeq on    *)
(* them, so the string functions are modelled character by character.      *)
(***************************************************************************)
EXTENDS Integers, Sequences, FiniteSets, TLC

(***************************************************************************)
(* Strings                                                                 *)
(***************************************************************************)
\* "x = v; F(x)": the value v is computed once and bound before F uses it
Let(v, F(_)) == CHOOSE r \in {F(x) : x \in {v}} : TRUE

CharAt(s, i) == SubSeq(s, i, i)

Drop(s, n) == SubSeq(s, n + 1, Len(s))

Take(s, n) == SubSeq(s, 1, n)

\* str.lower() on the ASCII letters
UpperToLower ==
  [c \in {"A","B","C","D","E","F","G","H","I","J","K","L","M",
          "N","O","P","Q","R","S","T","U","V","W","X","Y","Z"} |->
     CASE c = "A" -> "a" [] c = "B" -> "b" [] c = "C" -> "c" [] c = "D" -> "d"
       [] c = "E" -> "e" [] c = "F" -> "f" [] c = "G" -> "g" [] c = "H" -> "h"
       [] c = "I" -> "i" [] c = "J" -> "j" [] c = "K" -> "k" [] c = "L" -> "l"
       [] c = "M" -> "m" [] c = "N" -> "n" [] c = "O" -> "o" [] c = "P" -> "p"
       [] c = "Q" -> "q" [] c = "R" -> "r" [] c = "S" -> "s" [] c = "T" -> "t"
       [] c = "U" -> "u" [] c = "V" -> "v" [] c = "W" -> "w" [] c = "X" -> "x"
       [] c = "Y" -> "y" [] c = "Z" -> "z"]

LowerChar(c) == IF c \in DOMAIN UpperToLower THEN UpperToLower[c] ELSE c

RECURSIVE Lower(_)
Lower(s) == IF Len(s) = 0 THEN "" ELSE LowerChar(CharAt(s, 1)) \o Lower(Drop(s, 1))

\* str.find(c): 1-based index of the first occurrence of character c, 0 if none
Find(s, c) ==
  IF \A i \in 1..Len(s) : CharAt(s, i) # c THEN 0
  ELSE CHOOSE i \in 1..Len(s) :
         CharAt(s, i) = c /\ \A j \in 1..(i - 1) : CharAt(s, j) # c

\* index of the first character of s that is in the set cs, Len(s)+1 if none
FindAny(s, cs) ==
  IF \A i \in 1..Len(s) : CharAt(s, i) \notin cs THEN Len(s) + 1
  ELSE CHOOSE i \in 1..Len(s) :
         CharAt(s, i) \in cs /\ \A j \in 1..(i - 1) : CharAt(s, j) \notin cs

\* str.count(c)
Count(s, c) == Cardinality({i \in 1..Len(s) : CharAt(s, i) = c})

StartsWith(s, p) == Len(s) >= Len(p) /\ Take(s, Len(p)) = p

EndsWith(s, p) == Len(s) >= Len(p) /\ SubSeq(s, Len(s) - Len(p) + 1, Len(s)) = p

\* <<text before the first c, text after it>>; <<s, "">> when c does not occur
SplitAt(s, c) ==
  Let(Find(s, c), LAMBDA i : IF i = 0 THEN <<s, "">> ELSE <<Take(s, i - 1), Drop(s, i)>>)

(***************************************************************************)
(* urllib.parse: urlparse, urljoin, unquote                                *)
(***************************************************************************)
LowerLetters == {UpperToLower[c] : c \in DOMAIN UpperToLower}

Letters == DOMAIN UpperToLower \cup LowerLetters

SchemeChars == Letters \cup {"0","1","2","3","4","5","6","7","8","9","+","-","."}

\* urlsplit's scheme: <<scheme, rest>>
SplitScheme(url) ==
  Let(url, LAMBDA u :
    Let(Find(u, ":"), LAMBDA colon :
      IF /\ colon > 1
         /\ CharAt(u, 1) \in Letters
         /\ \A i \in 1..(colon - 1) : CharAt(u, i) \in SchemeChars
      THEN <<Lower(Take(u, colon - 1)), Drop(u, colon)>>
      ELSE <<"", u>>))

\* urlsplit's netloc: after "//", up to the first of / ? #: <<netloc, rest>>
SplitNetloc(r) ==
  IF StartsWith(r, "//")
  THEN Let(FindAny(Drop(r, 2), {"/", "?", "#"}), LAMBDA e :
         <<SubSeq(r, 3, e + 1), Drop(r, e + 1)>>)
  ELSE <<"", r>>

\* urlsplit: scheme, netloc, then the fragment after the first #, then the
\* query after the first ?.  (No ";" occurs in the modelled URLs, so
\* urlparse's params are empty.)
urlparse(url) ==
  Let(SplitScheme(url), LAMBDA a :
    Let(SplitNetloc(a[2]), LAMBDA b :
      Let(SplitAt(b[2], "#"), LAMBDA c :
        Let(SplitAt(c[1], "?"), LAMBDA d :
          [scheme |-> a[1], netloc |-> b[1], path |-> d[1],
           query |-> d[2], fragment |-> c[2]]))))

\* "{uri.scheme}://{uri.netloc}".format(uri=urlparse(base_url))
OriginOf(base_url) ==
  Let(urlparse(base_url), LAMBDA u : u.scheme \o "://" \o u.netloc)

\* urljoin(base, ref) for the references the scripts pass: an absolute URL,
\* a network-path reference ("//host/..."), or an absolute path ("/...").
urljoin(base, ref) ==
  Let(urlparse(base), LAMBDA b :
    Let(ref, LAMBDA r :
      IF SplitScheme(r)[1] # "" THEN r
      ELSE IF StartsWith(r, "//") THEN b.scheme \o ":" \o r
      ELSE b.scheme \o "://" \o b.netloc \o r))

\* the %xx escapes that occur in the modelled URLs
HexDecode ==
  [h \in {"25", "2F", "3F", "23", "41", "61", "43", "63"} |->
     CASE h = "25" -> "%" [] h = "2F" -> "/" [] h = "3F" -> "?" [] h = "23" -> "#"
       [] h = "41" -> "A" [] h = "61" -> "a" [] h = "43" -> "C" [] h = "63" -> "c"]

RECURSIVE unquote(_)
unquote(s) ==
  IF Len(s) = 0 THEN ""
  ELSE IF CharAt(s, 1) = "%" /\ Len(s) >= 3 /\ SubSeq(s, 2, 3) \in DOMAIN HexDecode
       THEN HexDecode[SubSeq(s, 2, 3)] \o unquote(Drop(s, 3))
       ELSE CharAt(s, 1) \o unquote(Drop(s, 1))

(***************************************************************************)
(* same_origin, normalize_path, is_excluded                                *)
(***************************************************************************)
same_origin(url, target_origin) ==
  Lower(urlparse(url).netloc) = Lower(urlparse(target_origin).netloc)

\* normalize_path that leaves the fragment on the path
normalize_path_withFragment(url, keep_query) ==
  Let(urlparse(url), LAMBDA u :
    Let(unquote(IF u.path = "" THEN "/" ELSE u.path)
          \o (IF u.fragment # "" THEN "#" \o u.fragment ELSE ""), LAMBDA path :
      IF ~keep_query THEN path
      ELSE IF u.query # "" THEN path \o "?" \o u.query ELSE path))

\* unicodedata.normalize("NFC", .) is the identity on ASCII text, and every
\* modelled URL is ASCII.
normalize_path(url, keep_query) ==
  Let(urlparse(url), LAMBDA u :
    Let(unquote(IF u.path = "" THEN "/" ELSE u.path), LAMBDA path :
      IF ~keep_query THEN path
      ELSE IF u.query # "" THEN path \o "?" \o u.query ELSE path))

\* re_search without the IGNORECASE flag
re_search_case_sensitive(pat, path) ==
  \E lit \in pat.alts :
    \E i \in 1..(Len(path) - Len(lit) + 1) :
      /\ SubSeq(path, i, i + Len(lit) - 1) = lit
      /\ pat.start => i = 1
      /\ pat.end => i + Len(lit) - 1 = Len(path)

\* One exclusion regex: the alternatives alts are literals, start/end say
\* whether the regex is anchored with ^ / $.  re.search(pat, path,
\* flags=re.IGNORECASE) finds a position where some alternative matches
\* the path, letters compared without regard to case.
re_search(pat, path) ==
  \E lit \in pat.alts :
    \E i \in 1..(Len(path) - Len(lit) + 1) :
      /\ pat.start => i = 1
      /\ pat.end => i + Len(lit) - 1 = Len(path)
      /\ Lower(SubSeq(path, i, i + Len(lit) - 1)) = Lower(lit)

is_excluded(path, patterns) ==
  \E k \in 1..Len(patterns) : re_search(patterns[k], path)

\* r"^/cart", r"^/checkout", r"^/login", r"/admin",
\* r"\.(pdf|zip|jpg|jpeg|png|gif|svg|webp|ico)$"
EXCLUDE_PATTERNS ==
  << [start |-> TRUE,  end |-> FALSE, alts |-> {"/cart"}],
     [start |-> TRUE,  end |-> FALSE, alts |-> {"/checkout"}],
     [start |-> TRUE,  end |-> FALSE, alts |-> {"/login"}],
     [start |-> FALSE, end |-> FALSE, alts |-> {"/admin"}],
     [start |-> FALSE, end |-> TRUE,
      alts |-> {".pdf", ".zip", ".jpg", ".jpeg", ".png", ".gif", ".svg", ".webp", ".ico"}] >>

(***************************************************************************)
(* sorted(discovered, key=lambda s: (s.count("/"), s))                     *)
(***************************************************************************)
\* the ASCII characters of the modelled URLs, in code-point order
AsciiOrder ==
  "#%+-./0123456789:=?ABCDEFGHIJKLMNOPQRSTUVWXYZ_abcdefghijklmnopqrstuvwxyz"

Ord(c) == Find(AsciiOrder, c)

Min(a, b) == IF a < b THEN a ELSE b

\* Python's str < str: compare at the first differing character, a proper
\* prefix is smaller
StrLess(a, b) ==
  IF \A i \in 1..Min(Len(a), Len(b)) : CharAt(a, i) = CharAt(b, i)
  THEN Len(a) < Len(b)
  ELSE \E i \in 1..Min(Len(a), Len(b)) :
         /\ \A j \in 1..(i - 1) : CharAt(a, j) = CharAt(b, j)
         /\ CharAt(a, i) # CharAt(b, i)
         /\ Ord(CharAt(a, i)) < Ord(CharAt(b, i))

KeyLess(a, b) ==
  \/ Count(a, "/") < Count(b, "/")
  \/ Count(a, "/") = Count(b, "/") /\ StrLess(a, b)

RECURSIVE SortedPaths(_)
SortedPaths(S) ==
  IF S = {} THEN <<>>
  ELSE Let(CHOOSE x \in S : \A y \in S \ {x} : KeyLess(x, y), LAMBDA m :
         <<m>> \o SortedPaths(S \ {m}))

(***************************************************************************)
(* Bounds of the model                                                     *)
(***************************************************************************)
\* max_pages ranges over 1..MaxPagesBound
MaxPagesBound == 4

\* max_depth ranges over 0..MaxDepthBound
MaxDepthBound == 2

\* start_paths ranges over the lists of at most MaxSeeds entries of SeedPool
MaxSeeds == 2

\* sitemap_urls ranges over the lists of at most MaxSitemaps entries of SitemapPool
MaxSitemaps == 2

(***************************************************************************)
(* State                                                                   *)
(***************************************************************************)
VARIABLES
  cfg,         \* crawl_paths' arguments and the site being crawled
  pc,          \* position in crawl_paths: "seed", "loop", "done"; "idle" outside
  seedIdx,     \* index of the next start path of the seeding loop
  q,           \* deque of CrawlTarget
  discovered,  \* set of normalized paths
  appended,    \* history: every CrawlTarget appended to q, in order
  popped,      \* history: every dequeued target with its navigation outcome
  result,      \* the list crawl_paths returns
  smCfg,       \* paths_from_sitemaps' arguments and the documents on the web
  smPc,        \* position in paths_from_sitemaps: "read", "done"; "idle" outside
  smIdx,       \* index of the next entry of sitemap_urls
  seen,        \* set of normalized paths
  smLog,       \* history: per configured sitemap, whether its read raised
  smResult,    \* the list paths_from_sitemaps returns
  rcfg,        \* run_compare's configuration and the discovered paths
  rPc,         \* position in run_compare: "start", "viewport", "path", "base",
               \* "compare", "metrics", "report", "done"; "raised" when an
               \* exception has left run_compare; "idle" outside
  vpIdx,       \* index of the current entry of VIEWPORTS
  pathIdx,     \* index of the current entry of paths
  browser,     \* "none", "open", "closed"
  contexts,    \* the browser contexts that are open
  initScripts, \* the init scripts of the current contexts
  results,     \* the list "results"
  outcomes,    \* history: every finished capture of the run
  diagnostic,  \* the "No paths discovered" message was printed
  reportWritten, \* report.html was written
  shotPc,      \* position in take_screenshot: the step about to run,
               \* "returned", "raised"; "none" outside a call
  trace,       \* history: the steps of the current call with their outcomes
  elapsed,     \* ms since wait_for_images_complete began
  pending,     \* the page holds an image that is not complete
  nmIn,        \* normalize_path's arguments: the URL's parts and keep_query
  nmPc,        \* "call", "once", "twice": how often normalize_path was applied
  nmOut,       \* normalize_path(url, keep_query)
  nmOut2,      \* normalize_path(nmOut, keep_query)
  imgA,        \* the base screenshot, decoded
  imgB,        \* the compare screenshot, decoded
  imgPc,       \* "open", "compared", "reversed", "done"; "idle" outside
  imgOut,      \* compute_mismatch_metrics(base, compare)
  imgRev,      \* compute_mismatch_metrics(compare, base)
  imgVc,       \* visual_compare.py's diff_and_metrics(base, compare, diff)
  vcPc,        \* position in visual_compare.py's main: "viewport", "path",
               \* "base", "compare", "diff", "report", "done"; "raised" when
               \* an exception has left main; "idle" outside
  vcVp,        \* index of the current entry of VIEWPORTS
  vcPath,      \* index of the current entry of PATHS
  vcStep,      \* index of the next step of take_screenshot, 0 outside a call
  vcCaptures,  \* history: every capture that ended, with its outcome
  vcResults,   \* the list "results" of main
  vcReport     \* report.html was written

crawlVars == <<cfg, pc, seedIdx, q, discovered, appended, popped, result>>

smVars == <<smCfg, smPc, smIdx, seen, smLog, smResult>>

runCtl == <<rcfg, rPc, vpIdx, pathIdx, browser, contexts, initScripts, results,
            outcomes, diagnostic, reportWritten>>

shotVars == <<shotPc, trace, elapsed, pending>>

runVars == <<runCtl, shotVars>>

normVars == <<nmIn, nmPc, nmOut, nmOut2>>

imgVars == <<imgA, imgB, imgPc, imgOut, imgRev, imgVc>>

vcVars == <<vcPc, vcVp, vcPath, vcStep, vcCaptures, vcResults, vcReport>>

auxVars == <<normVars, imgVars, vcVars>>

vars == <<crawlVars, smVars, runVars, auxVars>>

(***************************************************************************)
(* crawl_paths                                                             *)
(***************************************************************************)
BASE_URL == "https://b.io"

SeedPool == {"/", "/a", "/%61", "/b", "/cart"}

RECURSIVE SeqsUpTo(_, _)
SeqsUpTo(S, n) ==
  IF n = 0 THEN {<<>>}
  ELSE LET shorter == SeqsUpTo(S, n - 1)
       IN shorter \cup {Append(t, x) : t \in {u \in shorter : Len(u) = n - 1}, x \in S}

\* The sites crawled: the anchors (a.href, absolute URLs) found on each page.
\* SiteCyclic: pages link back to each other, excluded pages are linked from
\* several pages, hosts differ in case, links differ in fragment and query.
SiteCyclic ==
  [u \in {"https://b.io/", "https://b.io/a", "https://b.io/b", "https://b.io/d"} |->
     CASE u = "https://b.io/"  -> << "https://b.io/a", "https://b.io/Cart", "https://x.io/z",
                                     "https://b.io/a#top", "https://B.io/b" >>
       [] u = "https://b.io/a" -> << "https://b.io/", "https://b.io/b", "https://b.io/a/Admin",
                                     "https://b.io/a?p=1" >>
       [] u = "https://b.io/b" -> << "https://b.io/a", "https://b.io/cart", "https://b.io/d" >>
       [] u = "https://b.io/d" -> << "https://b.io/e", "https://b.io/f.PDF", "https://b.io/b" >>]

\* SiteChain: a chain deeper than any max_depth, with percent-encoded links.
SiteChain ==
  [u \in {"https://b.io/", "https://b.io/a", "https://b.io/a/b", "https://b.io/a/b/c",
          "https://b.io/a/b/c/d"} |->
     CASE u = "https://b.io/"        -> << "https://b.io/%61", "https://b.io/a" >>
       [] u = "https://b.io/a"       -> << "https://b.io/a/b", "https://b.io/" >>
       [] u = "https://b.io/a/b"     -> << "https://b.io/a/b/c" >>
       [] u = "https://b.io/a/b/c"   -> << "https://b.io/a/b/c/d" >>
       [] u = "https://b.io/a/b/c/d" -> << "https://b.io/a/b/c/d/e" >>]

\* SiteWide: more distinct pages on one page than any page cap.
SiteWide ==
  [u \in {"https://b.io/", "https://b.io/a", "https://b.io/b"} |->
     CASE u = "https://b.io/"  -> << "https://b.io/a", "https://b.io/b", "https://b.io/c",
                                     "https://b.io/d", "https://b.io/e", "https://b.io/login" >>
       [] u = "https://b.io/a" -> << "https://b.io/f", "https://b.io/g", "https://b.io/h",
                                     "https://b.io/i", "https://b.io/j" >>
       [] u = "https://b.io/b" -> << "https://b.io/k", "https://b.io/a", "https://b.io/l" >>]

Sites == {SiteCyclic, SiteChain, SiteWide}

\* the anchors of the page the browser shows after page.goto(abs_url)
PageLinks(site, abs_url) == IF abs_url \in DOMAIN site THEN site[abs_url] ELSE <<>>

CrawlConfigs ==
  [base_url : {BASE_URL}, start_paths : SeqsUpTo(SeedPool, MaxSeeds),
   max_pages : 1..MaxPagesBound, max_depth : 0..MaxDepthBound,
   keep_query : BOOLEAN, exclude_patterns : {EXCLUDE_PATTERNS}, site : Sites]

CrawlTarget(path, depth) == [path |-> path, depth |-> depth]

NoConfig == [none |-> TRUE]

CrawlIdle ==
  /\ cfg = NoConfig
  /\ pc = "idle"
  /\ seedIdx = 0
  /\ q = <<>>
  /\ discovered = {}
  /\ appended = <<>>
  /\ popped = <<>>
  /\ result = <<>>

InitCrawl ==
  /\ cfg \in CrawlConfigs
  /\ pc = IF Len(cfg.start_paths) = 0 THEN "loop" ELSE "seed"
  /\ seedIdx = 1
  /\ q = <<>>
  /\ discovered = {}
  /\ appended = <<>>
  /\ popped = <<>>
  /\ result = <<>>

\* CrawlSeed without "discovered.add(path)"
CrawlSeed_noDiscover ==
  /\ pc = "seed"
  /\ \E abs_url \in {urljoin(cfg.base_url, cfg.start_paths[seedIdx])} :
     \E path \in {normalize_path(abs_url, cfg.keep_query)} :
       IF ~is_excluded(path, cfg.exclude_patterns)
       THEN /\ q' = Append(q, CrawlTarget(path, 0))
            /\ appended' = Append(appended, CrawlTarget(path, 0))
       ELSE UNCHANGED <<q, appended>>
  /\ seedIdx' = seedIdx + 1
  /\ pc' = IF seedIdx = Len(cfg.start_paths) THEN "loop" ELSE "seed"
  /\ UNCHANGED <<cfg, discovered, popped, result, smVars, runVars, auxVars>>

\* one iteration of "for sp in start_paths"
CrawlSeed ==
  /\ pc = "seed"
  /\ \E abs_url \in {urljoin(cfg.base_url, cfg.start_paths[seedIdx])} :
     \E path \in {normalize_path(abs_url, cfg.keep_query)} :
       IF ~is_excluded(path, cfg.exclude_patterns)
       THEN /\ q' = Append(q, CrawlTarget(path, 0))
            /\ appended' = Append(appended, CrawlTarget(path, 0))
            /\ discovered' = discovered \cup {path}
       ELSE UNCHANGED <<q, appended, discovered>>
  /\ seedIdx' = seedIdx + 1
  /\ pc' = IF seedIdx = Len(cfg.start_paths) THEN "loop" ELSE "seed"
  /\ UNCHANGED <<cfg, popped, result, smVars, runVars, auxVars>>

\* the loop condition "q and len(discovered) < max_pages"
LoopCond == Len(q) > 0 /\ Cardinality(discovered) < cfg.max_pages

\* MayEnqueue with the depth test off by one
MayEnqueue_offByOne(depth, disc, c) ==
  depth <= c.max_depth /\ Cardinality(disc) < c.max_pages

\* "if current.depth + 1 <= max_depth and len(discovered) < max_pages"
MayEnqueue(depth, disc, c) ==
  depth + 1 <= c.max_depth /\ Cardinality(disc) < c.max_pages

\* the body of "for href in links" for one href; st = [discovered, q, appended]
enqueue_link(href, current, c, st) ==
  IF ~same_origin(href, OriginOf(c.base_url)) THEN st
  ELSE Let(normalize_path(href, c.keep_query), LAMBDA path :
         IF is_excluded(path, c.exclude_patterns) THEN st
         ELSE IF path \notin st.discovered /\ MayEnqueue(current.depth, st.discovered, c)
              THEN [discovered |-> st.discovered \cup {path},
                    q |-> Append(st.q, CrawlTarget(path, current.depth + 1)),
                    appended |-> Append(st.appended, CrawlTarget(path, current.depth + 1))]
              ELSE st)

\* "for href in links"
RECURSIVE enqueue_links(_, _, _, _)
enqueue_links(links, current, c, st) ==
  IF Len(links) = 0 THEN st
  ELSE Let(enqueue_link(Head(links), current, c, st), LAMBDA st1 :
         enqueue_links(Tail(links), current, c, st1))

\* CrawlExpand with the target taken from the right end of the deque
CrawlExpand_popRight ==
  /\ pc = "loop"
  /\ LoopCond
  /\ \E extracted \in BOOLEAN :
     \E current \in {q[Len(q)]} :
     \E abs_url \in {urljoin(OriginOf(cfg.base_url), current.path)} :
     \E links \in {IF extracted THEN PageLinks(cfg.site, abs_url) ELSE <<>>} :
     \E st \in {enqueue_links(links, current, cfg,
                  [discovered |-> discovered, q |-> SubSeq(q, 1, Len(q) - 1),
                   appended |-> appended])} :
       /\ discovered' = st.discovered
       /\ q' = st.q
       /\ appended' = st.appended
       /\ popped' = Append(popped,
            [target |-> current, nav |-> "ok", links |-> links,
             added |-> SubSeq(st.appended, Len(appended) + 1, Len(st.appended))])
  /\ UNCHANGED <<cfg, pc, seedIdx, result, smVars, runVars, auxVars>>

\* one loop iteration whose page.goto succeeds; the link extraction either
\* returns the anchors or fails (links = [])
CrawlExpand ==
  /\ pc = "loop"
  /\ LoopCond
  /\ \E extracted \in BOOLEAN :
     \E current \in {Head(q)} :
     \E abs_url \in {urljoin(OriginOf(cfg.base_url), current.path)} :
     \E links \in {IF extracted THEN PageLinks(cfg.site, abs_url) ELSE <<>>} :
     \E st \in {enqueue_links(links, current, cfg,
                  [discovered |-> discovered, q |-> Tail(q), appended |-> appended])} :
       /\ discovered' = st.discovered
       /\ q' = st.q
       /\ appended' = st.appended
       /\ popped' = Append(popped,
            [target |-> current, nav |-> "ok", links |-> links,
             added |-> SubSeq(st.appended, Len(appended) + 1, Len(st.appended))])
  /\ UNCHANGED <<cfg, pc, seedIdx, result, smVars, runVars, auxVars>>

\* CrawlNavFail with the failed target put back at the end of the queue
CrawlNavFail_requeue ==
  /\ pc = "loop"
  /\ LoopCond
  /\ q' = Append(Tail(q), Head(q))
  /\ UNCHANGED <<cfg, pc, seedIdx, discovered, appended, popped, result, smVars, runVars, auxVars>>

\* CrawlNavFail with the failed target left at the head of the queue
CrawlNavFail_keep ==
  /\ pc = "loop"
  /\ LoopCond
  /\ Len(popped) < 2 * MaxPagesBound
  /\ popped' = Append(popped,
       [target |-> Head(q), nav |-> "fail", links |-> <<>>, added |-> <<>>])
  /\ UNCHANGED <<cfg, pc, seedIdx, q, discovered, appended, result, smVars, runVars, auxVars>>

\* CrawlNavFail with the broken page's path dropped from discovered
CrawlNavFail_forget ==
  /\ pc = "loop"
  /\ LoopCond
  /\ q' = Tail(q)
  /\ discovered' = discovered \ {Head(q).path}
  /\ popped' = Append(popped,
       [target |-> Head(q), nav |-> "fail", links |-> <<>>, added |-> <<>>])
  /\ UNCHANGED <<cfg, pc, seedIdx, appended, result, smVars, runVars, auxVars>>

\* CrawlNavFail with the failure ending the loop
CrawlNavFail_abort ==
  /\ pc = "loop"
  /\ LoopCond
  /\ q' = Tail(q)
  /\ popped' = Append(popped,
       [target |-> Head(q), nav |-> "fail", links |-> <<>>, added |-> <<>>])
  /\ result' = SortedPaths(discovered)
  /\ pc' = "done"
  /\ UNCHANGED <<cfg, seedIdx, discovered, appended, smVars, runVars, auxVars>>

\* one loop iteration whose page.goto raises PWError: "continue"
CrawlNavFail ==
  /\ pc = "loop"
  /\ LoopCond
  /\ q' = Tail(q)
  /\ popped' = Append(popped,
       [target |-> Head(q), nav |-> "fail", links |-> <<>>, added |-> <<>>])
  /\ UNCHANGED <<cfg, pc, seedIdx, discovered, appended, result, smVars, runVars, auxVars>>

\* the loop ends; the contexts are closed and the sorted list is returned
CrawlReturn ==
  /\ pc = "loop"
  /\ ~LoopCond
  /\ result' = SortedPaths(discovered)
  /\ pc' = "done"
  /\ UNCHANGED <<cfg, seedIdx, q, discovered, appended, popped, smVars, runVars, auxVars>>

NextCrawl == CrawlSeed \/ CrawlExpand \/ CrawlNavFail \/ CrawlReturn

(***************************************************************************)
(* _iter_sitemap_urls, paths_from_sitemaps                                 *)
(***************************************************************************)
\* The sitemap documents on the web.  kind is the root tag, gz says whether
\* the bytes served are gzip-compressed, locs are the <loc> texts in order.
SitemapDocs ==
  [u \in {"https://b.io/sitemap.xml", "https://b.io/sm1.xml", "https://b.io/sm2.xml.GZ",
          "https://b.io/extra.xml", "https://b.io/nested.xml"} |->
     CASE u = "https://b.io/sitemap.xml" ->
            [kind |-> "sitemapindex", gz |-> FALSE,
             locs |-> << "https://b.io/sm1.xml", "https://b.io/sm2.xml.GZ" >>]
       [] u = "https://b.io/sm1.xml" ->
            [kind |-> "urlset", gz |-> FALSE,
             locs |-> << "https://b.io/", "https://b.io/a/b", "https://b.io/a" >>]
       [] u = "https://b.io/sm2.xml.GZ" ->
            [kind |-> "urlset", gz |-> TRUE,
             locs |-> << "https://b.io/c", "https://b.io/%61/d" >>]
       [] u = "https://b.io/extra.xml" ->
            [kind |-> "urlset", gz |-> FALSE,
             locs |-> << "https://b.io/Cart", "https://b.io/a#frag", "https://x.io/z",
                         "https://b.io/doc.PDF", "https://B.io/e?p=1",
                         "https://b.io/x/Admin/y" >>]
       [] u = "https://b.io/nested.xml" ->
            [kind |-> "sitemapindex", gz |-> FALSE,
             locs |-> << "https://b.io/extra.xml", "https://b.io/sitemap.xml" >>]]

SitemapPool == {"https://b.io/sitemap.xml", "https://b.io/extra.xml", "https://b.io/nested.xml"}

\* _fetch_bytes, gzip.decompress and ET.fromstring on one URL: raises when
\* the fetch fails (url in broken), when a ".gz" URL serves bytes that are
\* not gzip, or when gzip bytes are handed to the XML parser undecompressed
ReadRaises(url, docs, broken) ==
  \/ url \notin DOMAIN docs
  \/ url \in broken
  \/ EndsWith(Lower(url), ".gz") # docs[url].gz

\* The generator _iter_sitemap_urls(url): urls are the values it yields, in
\* order, until it is exhausted (ok) or raises (~ok).
RECURSIVE iter_sitemap_urls(_, _, _)
RECURSIVE iter_children(_, _, _)
iter_sitemap_urls(url, docs, broken) ==
  IF ReadRaises(url, docs, broken) THEN [urls |-> <<>>, ok |-> FALSE]
  ELSE IF docs[url].kind = "sitemapindex"
       THEN iter_children(docs[url].locs, docs, broken)
       ELSE [urls |-> docs[url].locs, ok |-> TRUE]

\* "for loc in ...: yield from _iter_sitemap_urls(child)"
iter_children(children, docs, broken) ==
  IF Len(children) = 0 THEN [urls |-> <<>>, ok |-> TRUE]
  ELSE Let(iter_sitemap_urls(Head(children), docs, broken), LAMBDA first :
         IF ~first.ok THEN first
         ELSE Let(iter_children(Tail(children), docs, broken), LAMBDA rest :
                [urls |-> first.urls \o rest.urls, ok |-> rest.ok]))

add_sitemap_path_unfiltered(abs_u, c, sn) ==
  sn \cup {normalize_path(abs_u, c.keep_query)}

\* the body of "for abs_u in _iter_sitemap_urls(sm)" for one yielded URL
add_sitemap_path(abs_u, c, sn) ==
  IF c.strict_same_origin /\ ~same_origin(abs_u, OriginOf(c.base_url)) THEN sn
  ELSE Let(normalize_path(abs_u, c.keep_query), LAMBDA path :
         IF ~is_excluded(path, EXCLUDE_PATTERNS) THEN sn \cup {path} ELSE sn)

\* "for abs_u in _iter_sitemap_urls(sm)" over the yielded URLs
RECURSIVE add_sitemap_paths(_, _, _)
add_sitemap_paths(urls, c, sn) ==
  IF Len(urls) = 0 THEN sn
  ELSE Let(add_sitemap_path(Head(urls), c, sn), LAMBDA sn1 :
         add_sitemap_paths(Tail(urls), c, sn1))

SitemapConfigs ==
  [base_url : {BASE_URL}, sitemap_urls : SeqsUpTo(SitemapPool, MaxSitemaps),
   keep_query : BOOLEAN, strict_same_origin : BOOLEAN,
   docs : {SitemapDocs}, broken : SUBSET (DOMAIN SitemapDocs)]

SitemapIdle ==
  /\ smCfg = NoConfig
  /\ smPc = "idle"
  /\ smIdx = 0
  /\ seen = {}
  /\ smLog = <<>>
  /\ smResult = <<>>

InitSitemap ==
  /\ smCfg \in SitemapConfigs
  /\ smPc = "read"
  /\ smIdx = 1
  /\ seen = {}
  /\ smLog = <<>>
  /\ smResult = <<>>

\* one iteration of "for sm in sitemap_urls", its except clause included
SitemapRead ==
  /\ smPc = "read"
  /\ smIdx <= Len(smCfg.sitemap_urls)
  /\ \E sm \in {smCfg.sitemap_urls[smIdx]} :
     \E it \in {iter_sitemap_urls(sm, smCfg.docs, smCfg.broken)} :
       /\ seen' = add_sitemap_paths(it.urls, smCfg, seen)
       /\ smLog' = Append(smLog, [sm |-> sm, raised |-> ~it.ok])
  /\ smIdx' = smIdx + 1
  /\ UNCHANGED <<smCfg, smPc, smResult, crawlVars, runVars, auxVars>>

SitemapReturn ==
  /\ smPc = "read"
  /\ smIdx > Len(smCfg.sitemap_urls)
  /\ smResult' = SortedPaths(seen)
  /\ smPc' = "done"
  /\ UNCHANGED <<smCfg, smIdx, seen, smLog, crawlVars, runVars, auxVars>>

NextSitemap == SitemapRead \/ SitemapReturn

(***************************************************************************)
(* filename_from_path and the image files of run_compare                   *)
(***************************************************************************)
\* str.strip(c) for a single character c
RECURSIVE StripChar(_, _)
StripChar(s, c) ==
  IF Len(s) > 0 /\ CharAt(s, 1) = c THEN StripChar(Drop(s, 1), c)
  ELSE IF Len(s) > 0 /\ CharAt(s, Len(s)) = c THEN StripChar(Take(s, Len(s) - 1), c)
  ELSE s

\* str.replace(old, new) for single characters
RECURSIVE ReplaceChar(_, _, _)
ReplaceChar(s, old, new) ==
  IF Len(s) = 0 THEN ""
  ELSE (IF CharAt(s, 1) = old THEN new ELSE CharAt(s, 1))
         \o ReplaceChar(Drop(s, 1), old, new)

\* the character class [A-Za-z0-9._-]
FilenameChars ==
  DOMAIN UpperToLower \cup {UpperToLower[c] : c \in DOMAIN UpperToLower}
    \cup {"0", "1", "2", "3", "4", "5", "6", "7", "8", "9", ".", "_", "-"}

\* re.sub(r"[^A-Za-z0-9._-]+", "_", s): every run of other characters
\* becomes one underscore
RECURSIVE SubUnsafe(_)
SubUnsafe(s) ==
  IF Len(s) = 0 THEN ""
  ELSE IF CharAt(s, 1) \in FilenameChars THEN CharAt(s, 1) \o SubUnsafe(Drop(s, 1))
  ELSE IF Len(s) > 1 /\ CharAt(s, 2) \notin FilenameChars THEN SubUnsafe(Drop(s, 1))
  ELSE "_" \o SubUnsafe(Drop(s, 1))

\* unicodedata.normalize("NFKD", .).encode("ascii", "ignore") is the identity
\* on ASCII text, and every modelled path is ASCII.
filename_from_path(path) ==
  Let(ReplaceChar(StripChar(path, "/"), "/", "_"), LAMBDA stem0 :
    Let(StripChar(SubUnsafe(IF stem0 = "" THEN "home" ELSE stem0), "_"), LAMBDA stem :
      IF stem = "" THEN "home" ELSE stem))

\* base_out / compare_out without the directory:
\* f"{fname_safe}_{vp_slug}_base.png", f"{fname_safe}_{vp_slug}_compare.png"
ImageFile(path, viewport, variant) ==
  filename_from_path(path) \o "_" \o ToString(viewport[1]) \o "x"
    \o ToString(viewport[2]) \o "_" \o variant \o ".png"

(***************************************************************************)
(* freeze_time, wait_for_images_complete, take_screenshot                  *)
(***************************************************************************)
IMAGE_WAIT_MS == 15000

\* "await sleep(200)" in wait_for_images_complete
SLEEP_MS == 200

VIEWPORTS == << <<1366, 768>>, <<390, 844>> >>

\* the values of "paths" after discovery: nothing found, one path, two paths
RunPathLists == {<<>>, <<"/">>, <<"/", "/about">>, <<"/", "/home">>}

\* FREEZE_TIME_ISO: None (written "") or a timestamp
FreezeValues == {"", "2025-01-01T00:00:00Z"}

RunConfigs ==
  [paths : RunPathLists, full_page : BOOLEAN, freeze_time_iso : FreezeValues]

\* freeze_time with an init script that the browser accepts
freeze_time_valid(iso) ==
  IF iso = "" THEN <<>> ELSE <<[replaces |-> "Date", parses |-> TRUE]>>

\* freeze_time(context, iso): the init scripts it adds to the context.  The
\* script's constructor, "super(args.length ? ...args : fixed)", has a spread
\* element as an operand of ?:, which is a SyntaxError: the script as a whole
\* does not parse, so no statement of it runs in any document.
freeze_time(iso) ==
  IF iso = "" THEN <<>> ELSE <<[replaces |-> "Date", parses |-> FALSE]>>

\* whether the pages of a context with these init scripts run "Date = FixedDate"
DateFrozen(scripts) ==
  \E i \in DOMAIN scripts : scripts[i].parses /\ scripts[i].replaces = "Date"

\* Date.now() in the page t ms after wait_for_images_complete began, counted
\* from the value it had then: FixedDate.now() always returns "fixed"
DateNow(scripts, t) == IF DateFrozen(scripts) THEN 0 ELSE t

\* "const deadline = Date.now() + timeout"
Deadline(scripts, timeout_ms) == DateNow(scripts, 0) + timeout_ms

Step(name, out) == [step |-> name, out |-> out]

InShot == rPc \in {"base", "compare"}

\* a browser call of take_screenshot inside "try: ... except PWError: pass"
Guarded(name, next) ==
  /\ InShot
  /\ shotPc = name
  /\ \E out \in {"ok", "PWError"} : trace' = Append(trace, Step(name, out))
  /\ shotPc' = next
  /\ UNCHANGED <<runCtl, elapsed, pending, crawlVars, smVars, auxVars>>

\* a browser call of take_screenshot outside any try: a PWError leaves the
\* function
Unguarded(name, next) ==
  /\ InShot
  /\ shotPc = name
  /\ \E out \in {"ok", "PWError"} :
       /\ trace' = Append(trace, Step(name, out))
       /\ shotPc' = IF out = "ok" THEN next ELSE "raised"
  /\ UNCHANGED <<runCtl, elapsed, pending, crawlVars, smVars, auxVars>>

\* resp = await page.goto(url, wait_until="networkidle", timeout=60_000)
ShotGoto == Unguarded("goto", "fonts")

\* document.fonts.ready
ShotFonts == Guarded("fonts", "style")

\* page.add_style_tag(content=overlay_css(hide_selectors))
ShotStyle == Guarded("style", "eager")

ShotEager_alwaysScroll == Unguarded("eager", "scroll")

\* await force_eager_images(page); "if full_page:" selects the next step
ShotEager == Unguarded("eager", IF rcfg.full_page THEN "scroll" ELSE "settle")

\* await progressive_autoscroll(page, ...)
ShotScroll == Unguarded("scroll", "settle")

\* await asyncio.sleep(wait_time), then wait_for_images_complete is entered;
\* the page may or may not hold an image that is not complete
ShotSettle ==
  /\ InShot
  /\ shotPc = "settle"
  /\ trace' = Append(trace, Step("settle", "ok"))
  /\ shotPc' = "wait"
  /\ elapsed' = 0
  /\ pending' \in BOOLEAN
  /\ UNCHANGED <<runCtl, crawlVars, smVars, auxVars>>

\* one test of "while (Date.now() < deadline)" and of "pending.length === 0";
\* a PWError of the page.evaluate call is caught by take_screenshot
ShotWaitTest ==
  /\ InShot
  /\ shotPc = "wait"
  /\ \/ /\ trace' = Append(trace, Step("wait", "PWError"))
        /\ shotPc' = "reset"
     \/ /\ DateNow(initScripts, elapsed) < Deadline(initScripts, IMAGE_WAIT_MS)
        /\ ~pending
        /\ trace' = Append(trace, Step("wait", "true"))
        /\ shotPc' = "reset"
     \/ /\ DateNow(initScripts, elapsed) < Deadline(initScripts, IMAGE_WAIT_MS)
        /\ pending
        /\ trace' = trace
        /\ shotPc' = "sleep"
     \/ /\ ~(DateNow(initScripts, elapsed) < Deadline(initScripts, IMAGE_WAIT_MS))
        /\ trace' = Append(trace, Step("wait", "false"))
        /\ shotPc' = "reset"
  /\ UNCHANGED <<runCtl, elapsed, pending, crawlVars, smVars, auxVars>>

\* "await sleep(200)": the clock advances (it is followed up to the timeout,
\* beyond which its value decides nothing) and the image may complete
ShotWaitSleep ==
  /\ InShot
  /\ shotPc = "sleep"
  /\ elapsed' = Min(elapsed + SLEEP_MS, IMAGE_WAIT_MS)
  /\ pending' \in {pending, FALSE}
  /\ shotPc' = "wait"
  /\ UNCHANGED <<runCtl, trace, crawlVars, smVars, auxVars>>

\* page.evaluate("window.scrollTo(0, 0)") inside try/except PWError; the
\* wait's script has returned and its clock reading is gone
ShotReset ==
  /\ InShot
  /\ shotPc = "reset"
  /\ \E out \in {"ok", "PWError"} : trace' = Append(trace, Step("reset", out))
  /\ shotPc' = "capture"
  /\ elapsed' = 0
  /\ pending' = FALSE
  /\ UNCHANGED <<runCtl, crawlVars, smVars, auxVars>>

\* return await page.screenshot(full_page=full_page, animations="disabled")
ShotCapture == Unguarded("capture", "returned")

NextShot ==
  \/ ShotGoto \/ ShotFonts \/ ShotStyle \/ ShotEager \/ ShotScroll
  \/ ShotSettle \/ ShotWaitTest \/ ShotWaitSleep \/ ShotReset \/ ShotCapture

(***************************************************************************)
(* run_compare                                                             *)
(***************************************************************************)
RunIdle ==
  /\ rcfg = NoConfig
  /\ rPc = "idle"
  /\ vpIdx = 0
  /\ pathIdx = 0
  /\ browser = "none"
  /\ contexts = {}
  /\ initScripts = <<>>
  /\ results = <<>>
  /\ outcomes = <<>>
  /\ diagnostic = FALSE
  /\ reportWritten = FALSE
  /\ shotPc = "none"
  /\ trace = <<>>
  /\ elapsed = 0
  /\ pending = FALSE

\* run_compare after the paths have been discovered
InitRun ==
  /\ rcfg \in RunConfigs
  /\ rPc = "start"
  /\ vpIdx = 0
  /\ pathIdx = 0
  /\ browser = "none"
  /\ contexts = {}
  /\ initScripts = <<>>
  /\ results = <<>>
  /\ outcomes = <<>>
  /\ diagnostic = FALSE
  /\ reportWritten = FALSE
  /\ shotPc = "none"
  /\ trace = <<>>
  /\ elapsed = 0
  /\ pending = FALSE

\* "if not paths: print(...); return", else the browser is launched
RunStart ==
  /\ rPc = "start"
  /\ IF Len(rcfg.paths) = 0
     THEN /\ diagnostic' = TRUE
          /\ rPc' = "done"
          /\ UNCHANGED <<browser, vpIdx>>
     ELSE /\ browser' = "open"
          /\ vpIdx' = 1
          /\ rPc' = "viewport"
          /\ UNCHANGED diagnostic
  /\ UNCHANGED <<rcfg, pathIdx, contexts, initScripts, results, outcomes,
                 reportWritten, shotVars, crawlVars, smVars, auxVars>>

\* one iteration of "for (width, height) in VIEWPORTS" up to the path loop:
\* both contexts are created and freeze_time is applied to each
RunOpenContexts ==
  /\ rPc = "viewport"
  /\ vpIdx <= Len(VIEWPORTS)
  /\ contexts' = contexts \cup {<<vpIdx, "base">>, <<vpIdx, "compare">>}
  /\ initScripts' = freeze_time(rcfg.freeze_time_iso)
  /\ pathIdx' = 1
  /\ rPc' = "path"
  /\ UNCHANGED <<rcfg, vpIdx, browser, results, outcomes, diagnostic,
                 reportWritten, shotVars, crawlVars, smVars, auxVars>>

\* "for path in paths": the next path's base capture begins
RunBeginPair ==
  /\ rPc = "path"
  /\ pathIdx <= Len(rcfg.paths)
  /\ rPc' = "base"
  /\ shotPc' = "goto"
  /\ trace' = <<>>
  /\ UNCHANGED <<rcfg, vpIdx, pathIdx, browser, contexts, initScripts, results,
                 outcomes, diagnostic, reportWritten, elapsed, pending,
                 crawlVars, smVars, auxVars>>

Outcome(variant, ok) ==
  [path |-> rcfg.paths[pathIdx], viewport |-> VIEWPORTS[vpIdx],
   variant |-> variant, ok |-> ok]

\* the base "try:" block after take_screenshot: on PWError "continue"; else
\* the image is written, and an error of open/write is not caught
RunBaseDone ==
  /\ rPc = "base"
  /\ \/ /\ shotPc = "raised"
        /\ outcomes' = Append(outcomes, Outcome("base", FALSE))
        /\ pathIdx' = pathIdx + 1
        /\ rPc' = "path"
        /\ shotPc' = "none"
     \/ /\ shotPc = "returned"
        /\ \E wr \in {"ok", "OSError"} :
             IF wr = "ok"
             THEN /\ outcomes' = Append(outcomes, Outcome("base", TRUE))
                  /\ rPc' = "compare"
                  /\ shotPc' = "goto"
                  /\ UNCHANGED pathIdx
             ELSE /\ rPc' = "raised"
                  /\ shotPc' = "none"
                  /\ UNCHANGED <<outcomes, pathIdx>>
  /\ trace' = <<>>
  /\ UNCHANGED <<rcfg, vpIdx, browser, contexts, initScripts, results,
                 diagnostic, reportWritten, elapsed, pending, crawlVars, smVars, auxVars>>

\* RunCompareDone with a record emitted for a pair whose compare capture failed
RunCompareDone_partial ==
  /\ rPc = "compare"
  /\ \/ /\ shotPc = "raised"
        /\ outcomes' = Append(outcomes, Outcome("compare", FALSE))
        /\ results' = Append(results,
             [path |-> rcfg.paths[pathIdx], viewport |-> VIEWPORTS[vpIdx]])
        /\ pathIdx' = pathIdx + 1
        /\ rPc' = "path"
        /\ shotPc' = "none"
     \/ /\ shotPc = "returned"
        /\ outcomes' = Append(outcomes, Outcome("compare", TRUE))
        /\ rPc' = "metrics"
        /\ shotPc' = "none"
        /\ UNCHANGED <<pathIdx, results>>
  /\ trace' = <<>>
  /\ UNCHANGED <<rcfg, vpIdx, browser, contexts, initScripts,
                 diagnostic, reportWritten, elapsed, pending, crawlVars, smVars, auxVars>>

\* the compare "try:" block after take_screenshot: on PWError "continue";
\* else the image is written, and an error of open/write is not caught
RunCompareDone ==
  /\ rPc = "compare"
  /\ \/ /\ shotPc = "raised"
        /\ outcomes' = Append(outcomes, Outcome("compare", FALSE))
        /\ pathIdx' = pathIdx + 1
        /\ rPc' = "path"
        /\ shotPc' = "none"
     \/ /\ shotPc = "returned"
        /\ \E wr \in {"ok", "OSError"} :
             IF wr = "ok"
             THEN /\ outcomes' = Append(outcomes, Outcome("compare", TRUE))
                  /\ rPc' = "metrics"
                  /\ shotPc' = "none"
                  /\ UNCHANGED pathIdx
             ELSE /\ rPc' = "raised"
                  /\ shotPc' = "none"
                  /\ UNCHANGED <<outcomes, pathIdx>>
  /\ trace' = <<>>
  /\ UNCHANGED <<rcfg, vpIdx, browser, contexts, initScripts, results,
                 diagnostic, reportWritten, elapsed, pending, crawlVars, smVars, auxVars>>

\* metrics = compute_mismatch_metrics(base_out, compare_out) and
\* results.append(...); an error of the diff is not caught
RunMetrics ==
  /\ rPc = "metrics"
  /\ \E diff \in {"ok", "error"} :
       IF diff = "ok"
       THEN /\ results' = Append(results,
                 [path |-> rcfg.paths[pathIdx], viewport |-> VIEWPORTS[vpIdx]])
            /\ pathIdx' = pathIdx + 1
            /\ rPc' = "path"
       ELSE /\ rPc' = "raised"
            /\ UNCHANGED <<results, pathIdx>>
  /\ UNCHANGED <<rcfg, vpIdx, browser, contexts, initScripts, outcomes,
                 diagnostic, reportWritten, shotVars, crawlVars, smVars, auxVars>>

\* after the last path: "await ctx_base.close(); await ctx_compare.close()"
RunCloseContexts ==
  /\ rPc = "path"
  /\ pathIdx > Len(rcfg.paths)
  /\ contexts' = contexts \ {<<vpIdx, "base">>, <<vpIdx, "compare">>}
  /\ vpIdx' = vpIdx + 1
  /\ rPc' = "viewport"
  /\ UNCHANGED <<rcfg, pathIdx, browser, initScripts, results, outcomes,
                 diagnostic, reportWritten, shotVars, crawlVars, smVars, auxVars>>

\* after the last viewport: "await browser.close()"
RunCloseBrowser ==
  /\ rPc = "viewport"
  /\ vpIdx > Len(VIEWPORTS)
  /\ browser' = "closed"
  /\ rPc' = "report"
  /\ UNCHANGED <<rcfg, vpIdx, pathIdx, contexts, initScripts, results, outcomes,
                 diagnostic, reportWritten, shotVars, crawlVars, smVars, auxVars>>

\* "# Write report": render_report and the write of report.html
RunWriteReport ==
  /\ rPc = "report"
  /\ reportWritten' = TRUE
  /\ rPc' = "done"
  /\ UNCHANGED <<rcfg, vpIdx, pathIdx, browser, contexts, initScripts, results,
                 outcomes, diagnostic, shotVars, crawlVars, smVars, auxVars>>

NextRun ==
  \/ RunStart \/ RunOpenContexts \/ RunBeginPair \/ NextShot \/ RunBaseDone
  \/ RunCompareDone \/ RunMetrics \/ RunCloseContexts \/ RunCloseBrowser
  \/ RunWriteReport

(***************************************************************************)
(* normalize_path as applied by the crawl and by the sitemap scan          *)
(***************************************************************************)
\* the paths, queries and fragments of the URLs normalize_path is applied to
NormPaths ==
  {"", "/", "/a", "/A", "/%61", "/a/b", "/a%2Fb", "/a%2541", "/a%23b", "/a%3Fb", "/c%25"}

NormQueries == {"", "p=1", "x=%41"}

NormFragments == {"", "top", "s?t"}

\* the URL with these parts, as an anchor's href or a sitemap's <loc> gives it
ComposeUrl(path, query, fragment) ==
  BASE_URL \o path \o (IF query = "" THEN "" ELSE "?" \o query)
           \o (IF fragment = "" THEN "" ELSE "#" \o fragment)

NormIdle ==
  /\ nmIn = NoConfig
  /\ nmPc = "idle"
  /\ nmOut = ""
  /\ nmOut2 = ""

InitNorm ==
  /\ nmIn \in [path : NormPaths, query : NormQueries, fragment : NormFragments,
               keep_query : BOOLEAN]
  /\ nmPc = "call"
  /\ nmOut = ""
  /\ nmOut2 = ""

\* path = normalize_path(abs_url, keep_query)
NormApply ==
  /\ nmPc = "call"
  /\ nmOut' = normalize_path(ComposeUrl(nmIn.path, nmIn.query, nmIn.fragment),
                             nmIn.keep_query)
  /\ nmPc' = "once"
  /\ UNCHANGED <<nmIn, nmOut2, crawlVars, smVars, runVars, imgVars, vcVars>>

\* normalize_path applied to a path it returned
NormReapply ==
  /\ nmPc = "once"
  /\ nmOut2' = normalize_path(nmOut, nmIn.keep_query)
  /\ nmPc' = "twice"
  /\ UNCHANGED <<nmIn, nmOut, crawlVars, smVars, runVars, imgVars, vcVars>>

NextNorm == NormApply \/ NormReapply

(***************************************************************************)
(* Image comparison: pad_to_same_size, compute_mismatch_metrics and        *)
(* visual_compare.py's diff_and_metrics                                    *)
(***************************************************************************)
\* the largest number of pixels of a modelled screenshot
MaxImgArea == 4

White == <<255, 255, 255>>

Red == <<255, 0, 0>>

\* the colour of Image.new("RGB", size) when no colour is passed
Black == <<0, 0, 0>>

\* the pixel colours of the modelled screenshots, after convert("RGB")
Colours == {White, Red}

ImgSizes ==
  {s \in (1..MaxImgArea) \X (1..MaxImgArea) : s[1] * s[2] <= MaxImgArea}

Pixels(w, h) == (1..w) \X (1..h)

\* the decoded screenshots: size and the colour of each pixel <<x, y>>
Images ==
  UNION {{[w |-> s[1], h |-> s[2], px |-> f] :
            f \in [Pixels(s[1], s[2]) -> Colours]} : s \in ImgSizes}

NoImage == [w |-> 0, h |-> 0, px |-> [p \in {} |-> White]]

NoMetrics ==
  [width |-> 0, height |-> 0, mismatchedPixels |-> 0, mismatchPercentage |-> 0]

Max(a, b) == IF a >= b THEN a ELSE b

\* n = Image.new("RGB", (w, h), fill); n.paste(img, (0, 0))
NewPasted(w, h, fill, img) ==
  [w |-> w, h |-> h,
   px |-> [p \in Pixels(w, h) |->
             IF p[1] <= img.w /\ p[2] <= img.h THEN img.px[p] ELSE fill]]

\* pad_to_same_size of site_visual_crawler_compare.py and of
\* site_visual_compare_static.py: bg is assigned but not passed to Image.new
pad_to_same_size(img1, img2) ==
  IF <<img1.w, img1.h>> = <<img2.w, img2.h>>
  THEN <<img1, img2>>
  ELSE <<NewPasted(Max(img1.w, img2.w), Max(img1.h, img2.h), Black, img1),
         NewPasted(Max(img1.w, img2.w), Max(img1.h, img2.h), Black, img2)>>

\* pad_to_same_size of visual_compare.py: bg is passed to Image.new
vc_pad_to_same_size(img1, img2) ==
  IF <<img1.w, img1.h>> = <<img2.w, img2.h>>
  THEN <<img1, img2>>
  ELSE <<NewPasted(Max(img1.w, img2.w), Max(img1.h, img2.h), White, img1),
         NewPasted(Max(img1.w, img2.w), Max(img1.h, img2.h), White, img2)>>

Difference_subtract(a, b) ==
  [w |-> a.w, h |-> a.h,
   px |-> [p \in Pixels(a.w, a.h) |->
             [ch \in 1..3 |->
                IF a.px[p][ch] >= b.px[p][ch]
                THEN a.px[p][ch] - b.px[p][ch]
                ELSE 0]]]

\* ImageChops.difference(a, b): the absolute difference of each channel
Difference(a, b) ==
  [w |-> a.w, h |-> a.h,
   px |-> [p \in Pixels(a.w, a.h) |->
             [ch \in 1..3 |->
                IF a.px[p][ch] >= b.px[p][ch]
                THEN a.px[p][ch] - b.px[p][ch]
                ELSE b.px[p][ch] - a.px[p][ch]]]]

\* np.any(diff_arr != 0, axis=2): the pixels with a non-zero channel
MismatchedMask(diff) ==
  {p \in Pixels(diff.w, diff.h) : \E ch \in 1..3 : diff.px[p][ch] # 0}

\* round((mismatched / total) * 100 if total else 0.0, 4), in units of 0.0001
MismatchPct(mismatched, total) ==
  IF total = 0 THEN 0 ELSE (2 * mismatched * 1000000 + total) \div (2 * total)

MetricsOf(diff) ==
  [width |-> diff.w, height |-> diff.h,
   mismatchedPixels |-> Cardinality(MismatchedMask(diff)),
   mismatchPercentage |->
     MismatchPct(Cardinality(MismatchedMask(diff)), diff.h * diff.w)]

compute_mismatch_metrics_firstChannel(a, b) ==
  LET diff == Difference(pad_to_same_size(a, b)[1], pad_to_same_size(a, b)[2])
      mask == {p \in Pixels(diff.w, diff.h) : diff.px[p][1] # 0}
  IN  [width |-> diff.w, height |-> diff.h,
       mismatchedPixels |-> Cardinality(mask),
       mismatchPercentage |-> MismatchPct(Cardinality(mask), diff.h * diff.w)]

compute_mismatch_metrics(a, b) ==
  MetricsOf(Difference(pad_to_same_size(a, b)[1], pad_to_same_size(a, b)[2]))

\* visual_compare.py: the metrics diff_and_metrics returns; the difference
\* image itself is what it saves to diff_path
diff_and_metrics(a, b) ==
  MetricsOf(Difference(vc_pad_to_same_size(a, b)[1],
                       vc_pad_to_same_size(a, b)[2]))

\* the rectangles drawn on a copy of the compare image when a and b are
\* compared: compute_mismatch_metrics returns the four metrics and
\* diff_and_metrics saves the difference image besides; neither labels
\* regions of the mask nor draws on an image
HighlightRects(a, b) == {}

ImgIdle ==
  /\ imgA = NoImage
  /\ imgB = NoImage
  /\ imgPc = "idle"
  /\ imgOut = NoMetrics
  /\ imgRev = NoMetrics
  /\ imgVc = NoMetrics

\* metrics = compute_mismatch_metrics(base_out, compare_out)
ImgCompare ==
  /\ imgPc = "open"
  /\ imgOut' = compute_mismatch_metrics(imgA, imgB)
  /\ imgPc' = "compared"
  /\ UNCHANGED <<imgA, imgB, imgRev, imgVc, crawlVars, smVars, runVars, normVars, vcVars>>

\* compute_mismatch_metrics with the two files exchanged
ImgCompareReversed ==
  /\ imgPc = "compared"
  /\ imgRev' = compute_mismatch_metrics(imgB, imgA)
  /\ imgPc' = "reversed"
  /\ UNCHANGED <<imgA, imgB, imgOut, imgVc, crawlVars, smVars, runVars, normVars, vcVars>>

\* visual_compare.py: metrics = diff_and_metrics(base_out, compare_out, diff_out)
ImgDiffAndMetrics ==
  /\ imgPc = "reversed"
  /\ imgVc' = diff_and_metrics(imgA, imgB)
  /\ imgPc' = "done"
  /\ UNCHANGED <<imgA, imgB, imgOut, imgRev, crawlVars, smVars, runVars, normVars, vcVars>>

NextImg == ImgCompare \/ ImgCompareReversed \/ ImgDiffAndMetrics

(***************************************************************************)
(* visual_compare.py: take_screenshot and main                             *)
(***************************************************************************)
VC_PATHS == << "/", "/products", "/contact" >>

\* the awaited steps of visual_compare.py's take_screenshot, in order
VcSteps == << "goto", "fonts", "style", "settle", "reset", "capture" >>

VcIdle ==
  /\ vcPc = "idle"
  /\ vcVp = 0
  /\ vcPath = 0
  /\ vcStep = 0
  /\ vcCaptures = <<>>
  /\ vcResults = <<>>
  /\ vcReport = FALSE

\* "for (width, height) in VIEWPORTS": the contexts and pages of the next
\* viewport are created; after the last one the browser is closed
VcViewport ==
  /\ vcPc = "viewport"
  /\ IF vcVp < Len(VIEWPORTS)
     THEN /\ vcVp' = vcVp + 1
          /\ vcPath' = 0
          /\ vcPc' = "path"
     ELSE /\ vcPc' = "report"
          /\ UNCHANGED <<vcVp, vcPath>>
  /\ UNCHANGED <<vcStep, vcCaptures, vcResults, vcReport,
                 crawlVars, smVars, runVars, normVars, imgVars>>

\* "for pth in PATHS": the base capture of the next path begins; after the
\* last path both contexts are closed
VcPath ==
  /\ vcPc = "path"
  /\ IF vcPath < Len(VC_PATHS)
     THEN /\ vcPath' = vcPath + 1
          /\ vcPc' = "base"
          /\ vcStep' = 1
     ELSE /\ vcPc' = "viewport"
          /\ UNCHANGED <<vcPath, vcStep>>
  /\ UNCHANGED <<vcVp, vcCaptures, vcResults, vcReport,
                 crawlVars, smVars, runVars, normVars, imgVars>>

VcCapture(ok) ==
  [path |-> VC_PATHS[vcPath], viewport |-> VIEWPORTS[vcVp], variant |-> vcPc,
   ok |-> ok]

\* one awaited step of take_screenshot: an error of the font wait is
\* swallowed by the bare except, asyncio.sleep does not fail, and an error
\* of any other step leaves take_screenshot and, uncaught, main
VcShotStep ==
  /\ vcPc \in {"base", "compare"}
  /\ vcStep \in DOMAIN VcSteps
  /\ \E ok \in BOOLEAN :
       IF ok \/ VcSteps[vcStep] = "fonts"
       THEN /\ vcStep' = vcStep + 1
            /\ UNCHANGED <<vcPc, vcCaptures>>
       ELSE /\ VcSteps[vcStep] # "settle"
            /\ vcCaptures' = Append(vcCaptures, VcCapture(FALSE))
            /\ vcPc' = "raised"
            /\ vcStep' = 0
  /\ UNCHANGED <<vcVp, vcPath, vcResults, vcReport,
                 crawlVars, smVars, runVars, normVars, imgVars>>

\* "with open(base_out, "wb") as f: f.write(base_buf)" and the same for the
\* compare image; an error of open or write is not caught
VcWrite ==
  /\ vcPc \in {"base", "compare"}
  /\ vcStep = Len(VcSteps) + 1
  /\ vcCaptures' = Append(vcCaptures, VcCapture(TRUE))
  /\ \E wr \in {"ok", "OSError"} :
       IF wr = "ok"
       THEN /\ vcPc' = (IF vcPc = "base" THEN "compare" ELSE "diff")
            /\ vcStep' = (IF vcPc = "base" THEN 1 ELSE 0)
       ELSE /\ vcPc' = "raised"
            /\ vcStep' = 0
  /\ UNCHANGED <<vcVp, vcPath, vcResults, vcReport,
                 crawlVars, smVars, runVars, normVars, imgVars>>

\* metrics = diff_and_metrics(...) and results.append(...); an error of the
\* diff is not caught
VcDiff ==
  /\ vcPc = "diff"
  /\ \E diff \in {"ok", "error"} :
       IF diff = "ok"
       THEN /\ vcResults' = Append(vcResults,
                 [path |-> VC_PATHS[vcPath], viewport |-> VIEWPORTS[vcVp]])
            /\ vcPc' = "path"
       ELSE /\ vcPc' = "raised"
            /\ UNCHANGED vcResults
  /\ UNCHANGED <<vcVp, vcPath, vcStep, vcCaptures, vcReport,
                 crawlVars, smVars, runVars, normVars, imgVars>>

\* render_report and the write of report.html
VcWriteReport ==
  /\ vcPc = "report"
  /\ vcReport' = TRUE
  /\ vcPc' = "done"
  /\ UNCHANGED <<vcVp, vcPath, vcStep, vcCaptures, vcResults,
                 crawlVars, smVars, runVars, normVars, imgVars>>

NextVc ==
  VcViewport \/ VcPath \/ VcShotStep \/ VcWrite \/ VcDiff \/ VcWriteReport

AuxIdle == NormIdle /\ ImgIdle /\ VcIdle

(***************************************************************************)
(* Path discovery: run_compare takes its paths from the sitemaps or from   *)
(* the crawl                                                               *)
(***************************************************************************)
Init ==
  \/ InitCrawl /\ SitemapIdle /\ RunIdle /\ AuxIdle
  \/ InitSitemap /\ CrawlIdle /\ RunIdle /\ AuxIdle

Next == NextCrawl \/ NextSitemap

Spec == Init /\ [][Next]_vars

\* every awaited navigation returns or fails, so the crawl keeps taking
\* steps while it can
FairSpec == Spec /\ WF_vars(NextCrawl)

\* run_compare from the discovered paths on
RunInit == InitRun /\ CrawlIdle /\ SitemapIdle /\ AuxIdle

RunSpec == RunInit /\ [][NextRun]_vars

\* run_compare with a single discovered path
OnePathInit == RunInit /\ Len(rcfg.paths) = 1

\* every awaited browser call and every sleep returns or fails, so the run
\* keeps taking steps while it can
FairRunSpec == OnePathInit /\ [][NextRun]_vars /\ WF_vars(NextRun)

\* normalize_path on its own
NormInit == InitNorm /\ CrawlIdle /\ SitemapIdle /\ RunIdle /\ ImgIdle /\ VcIdle

NormSpec == NormInit /\ [][NextNorm]_vars

\* the comparison of two screenshots on its own
ImgInit ==
  /\ imgA \in Images
  /\ imgB \in Images
  /\ imgPc = "open"
  /\ imgOut = NoMetrics
  /\ imgRev = NoMetrics
  /\ imgVc = NoMetrics
  /\ CrawlIdle /\ SitemapIdle /\ RunIdle /\ NormIdle /\ VcIdle

ImgSpec == ImgInit /\ [][NextImg]_vars

\* visual_compare.py's main from the launch of the browser on
VcInit ==
  /\ vcPc = "viewport"
  /\ vcVp = 0
  /\ vcPath = 0
  /\ vcStep = 0
  /\ vcCaptures = <<>>
  /\ vcResults = <<>>
  /\ vcReport = FALSE
  /\ CrawlIdle /\ SitemapIdle /\ RunIdle /\ NormIdle /\ ImgIdle

VcSpec == VcInit /\ [][NextVc]_vars

(***************************************************************************)
(* Properties of the crawl and of the sitemap scan                         *)
(***************************************************************************)
InCrawl == pc \in {"seed", "loop", "done"}

\* C1: for a positive page cap max_pages, the discovered set holds at most
\* max_pages paths in every state of the crawl, and so does the returned list.
C1_DiscoveredWithinCap ==
  InCrawl => /\ Cardinality(discovered) <= cfg.max_pages
             /\ Len(result) <= cfg.max_pages

\* a path matches an exclusion pattern when, after case folding, one of the
\* pattern's literals occurs in it at a position the anchors allow
MatchesExclusion(p) ==
  \E k \in 1..Len(EXCLUDE_PATTERNS) :
    LET pat == EXCLUDE_PATTERNS[k]
        lp  == Lower(p)
    IN \E lit \in pat.alts :
         \E i \in 1..(Len(lp) - Len(lit) + 1) :
           /\ SubSeq(lp, i, i + Len(lit) - 1) = lit
           /\ pat.start => i = 1
           /\ pat.end => i + Len(lit) - 1 = Len(lp)

\* C3: no path that matches an exclusion pattern (case-insensitively) is ever
\* in the discovered set of a crawl, in its queue or result, nor in the set
\* built by paths_from_sitemaps.
C3_ExcludedNeverDiscovered ==
  /\ \A p \in discovered \cup seen : ~MatchesExclusion(p)
  /\ \A i \in 1..Len(appended) : ~MatchesExclusion(appended[i].path)
  /\ \A i \in 1..Len(result) : ~MatchesExclusion(result[i])
  /\ \A i \in 1..Len(smResult) : ~MatchesExclusion(smResult[i])

\* C3 witness: a finished crawl in which an excluded path was linked from
\* two different expanded pages.
C3_Witness ==
  /\ pc = "done"
  /\ \E i, j \in 1..Len(popped) :
       /\ i # j
       /\ \E a \in 1..Len(popped[i].links), b \in 1..Len(popped[j].links) :
            /\ MatchesExclusion(normalize_path(popped[i].links[a], cfg.keep_query))
            /\ normalize_path(popped[i].links[a], cfg.keep_query)
                 = Lower(normalize_path(popped[j].links[b], cfg.keep_query))

\* C4: every enqueued CrawlTarget has depth <= max_depth, and expanding a
\* target whose depth equals max_depth adds nothing to the discovered set or
\* to the queue.
C4_DepthBound ==
  /\ [](InCrawl => \A i \in 1..Len(appended) : appended[i].depth <= cfg.max_depth)
  /\ [][(pc = "loop" /\ LoopCond /\ Head(q).depth = cfg.max_depth)
          => (discovered' = discovered /\ q' = Tail(q) /\ appended' = appended)]_vars

\* C4 witness: a target at max_depth was expanded, its page had a link to a
\* same-origin, non-excluded path that was not yet discovered, and the page
\* cap had not been reached.
C4_Witness ==
  /\ InCrawl
  /\ Cardinality(discovered) < cfg.max_pages
  /\ \E i \in 1..Len(popped) :
       /\ popped[i].nav = "ok"
       /\ popped[i].target.depth = cfg.max_depth
       /\ \E a \in 1..Len(popped[i].links) :
            LET href == popped[i].links[a]
                path == normalize_path(href, cfg.keep_query)
            IN /\ same_origin(href, OriginOf(cfg.base_url))
               /\ ~MatchesExclusion(path)
               /\ path \notin discovered

\* C5: the crawl loop terminates, and when it has ended the queue is empty or
\* the discovered set has reached max_pages.
C5_CrawlTerminates ==
  /\ [](pc \in {"seed", "loop"} => <>(pc = "done"))
  /\ [](pc = "done" => (Len(q) = 0 \/ Cardinality(discovered) >= cfg.max_pages))

\* C5 witness: a crawl of the cyclic site ended on the page cap with targets
\* left in the queue, after expanding a page that links back to a discovered
\* path.
C5_Witness ==
  /\ pc = "done"
  /\ cfg.site = SiteCyclic
  /\ Len(q) > 0
  /\ Cardinality(discovered) = cfg.max_pages
  /\ \E i \in 1..Len(popped) :
       \E a \in 1..Len(popped[i].links) :
         normalize_path(popped[i].links[a], cfg.keep_query) = popped[1].target.path

\* C6: no normalized path is appended to the queue more than once, during
\* seeding as well as during expansion.
C6_NoPathQueuedTwice ==
  \A i, j \in 1..Len(appended) : i # j => appended[i].path # appended[j].path

\* a step in which a dequeued target's navigation failed
NavFailStep ==
  /\ Len(popped') = Len(popped) + 1
  /\ popped'[Len(popped')].nav = "fail"

\* C10: a navigation failure only skips the expansion of the dequeued target:
\* nothing is added, the discovered set and the rest of the queue stay as they
\* are, and the loop goes on with the rest of the queue.
C10_NavFailureSkipsOneTarget ==
  [][NavFailStep => /\ discovered' = discovered
                    /\ appended' = appended
                    /\ q' = Tail(q)
                    /\ popped'[Len(popped')].target = Head(q)
                    /\ pc' = "loop"]_vars

\* C10 witness: after a failed navigation, a target that was behind it in the
\* queue was expanded and its links were enqueued.
C10_Witness ==
  \E i, j \in 1..Len(popped) :
    /\ i < j
    /\ popped[i].nav = "fail"
    /\ popped[j].nav = "ok"
    /\ Len(popped[j].added) > 0

(***************************************************************************)
(* Properties of run_compare and take_screenshot                           *)
(***************************************************************************)
InRun == rPc # "idle"

\* the (path, viewport) pairs of the run
Pairs == {<<rcfg.paths[i], VIEWPORTS[j]>> : i \in DOMAIN rcfg.paths, j \in DOMAIN VIEWPORTS}

\* the capture of this variant of the pair returned an image that was written
CaptureOk(p, v, variant) ==
  \E i \in DOMAIN outcomes :
    outcomes[i] = [path |-> p, viewport |-> v, variant |-> variant, ok |-> TRUE]

CaptureFailed(p, v) ==
  \E i \in DOMAIN outcomes :
    outcomes[i].path = p /\ outcomes[i].viewport = v /\ ~outcomes[i].ok

Records(p, v) ==
  Cardinality({i \in DOMAIN results : results[i] = [path |-> p, viewport |-> v]})

\* C2: when the capture loops of run_compare have ended, the result list holds
\* exactly one record for each (path, viewport) pair whose base and compare
\* captures both succeeded and none for a pair with a failed capture; at every
\* moment a pair has at most one record, and only if both its captures
\* succeeded; and no step removes or changes a record already in the list.
C2_OneRecordPerCapturedPair ==
  /\ [](InRun /\ rPc \in {"report", "done"} /\ Len(rcfg.paths) > 0
          => \A pv \in Pairs :
               Records(pv[1], pv[2]) =
                 IF CaptureOk(pv[1], pv[2], "base") /\ CaptureOk(pv[1], pv[2], "compare")
                 THEN 1 ELSE 0)
  /\ [](InRun /\ Len(rcfg.paths) > 0
          => \A pv \in Pairs :
               /\ Records(pv[1], pv[2]) <= 1
               /\ Records(pv[1], pv[2]) = 1
                    => CaptureOk(pv[1], pv[2], "base") /\ CaptureOk(pv[1], pv[2], "compare")
               /\ CaptureFailed(pv[1], pv[2]) => Records(pv[1], pv[2]) = 0)
  /\ [][InRun => Len(results') >= Len(results)
                 /\ SubSeq(results', 1, Len(results)) = results]_vars

\* C2 witness: a run over 2 paths and 2 viewports has ended with exactly 3
\* records: the first pair's compare capture failed, the three later pairs
\* were captured and recorded.
C2_Witness ==
  /\ rPc = "done"
  /\ Len(rcfg.paths) = 2
  /\ Len(results) = 3
  /\ reportWritten
  /\ outcomes[2] = [path |-> "/", viewport |-> VIEWPORTS[1], variant |-> "compare", ok |-> FALSE]
  /\ Cardinality({i \in DOMAIN outcomes : ~outcomes[i].ok}) = 1

StabilizationSteps == {"fonts", "style", "eager", "scroll", "wait", "reset"}

\* C7: take_screenshot never fails because of a stabilization step: whenever
\* the call has raised, the step that raised is not the font wait, the style
\* injection, the forcing of eager images, the progressive scroll, the image
\* wait or the scroll reset.
C7_StabilizationErrorsAbsorbed ==
  InRun /\ shotPc = "raised" => trace[Len(trace)].step \notin StabilizationSteps

\* C8: when a run has ended, by returning or by an exception leaving
\* run_compare, the report has been written if and only if at least one path
\* was discovered; with no path the diagnostic was printed and no browser was
\* launched.
C8_ReportIffPaths ==
  InRun /\ rPc \in {"done", "raised"}
    => /\ reportWritten <=> Len(rcfg.paths) > 0
       /\ Len(rcfg.paths) = 0 => diagnostic /\ browser = "none"

\* the outcome of the image wait of the current call, "none" before it ended
WaitOutcome ==
  IF \E i \in DOMAIN trace : trace[i].step = "wait"
  THEN (CHOOSE s \in {trace[i] : i \in DOMAIN trace} : s.step = "wait").out
  ELSE "none"

RECURSIVE ReadableLocs(_, _, _)
ReadableLocs(url, docs, broken) ==
  IF ReadRaises(url, docs, broken) THEN {}
  ELSE IF docs[url].kind = "sitemapindex"
       THEN UNION {ReadableLocs(docs[url].locs[i], docs, broken) : i \in DOMAIN docs[url].locs}
       ELSE {docs[url].locs[i] : i \in DOMAIN docs[url].locs}

\* the paths a set of sitemap entries contributes under configuration c
PathsOfLocs(locs, c) ==
  {normalize_path(u, c.keep_query) :
     u \in {v \in locs : /\ c.strict_same_origin => same_origin(v, OriginOf(c.base_url))
                         /\ ~MatchesExclusion(normalize_path(v, c.keep_query))}}

SeqToSet(s) == {s[i] : i \in DOMAIN s}

\* C11: when paths_from_sitemaps has returned, the list holds the path of
\* every entry (passing the origin and exclusion filters) of every sitemap
\* document that could be fetched and parsed, whichever other documents
\* failed, be they configured before it or listed before it in the same index.
C11_FailureCostsOneDocument ==
  smPc = "done" =>
    \A i \in DOMAIN smCfg.sitemap_urls :
      PathsOfLocs(ReadableLocs(smCfg.sitemap_urls[i], smCfg.docs, smCfg.broken), smCfg)
        \subseteq SeqToSet(smResult)

\* C17: when every sitemap document can be fetched and parsed, whatever the
\* nesting of the indexes, paths_from_sitemaps returns exactly the normalized
\* paths of the <url><loc> entries of all leaf sitemaps that pass the origin
\* filter (when strict) and the exclusion filter, each once, sorted by the
\* number of '/' and then by the string; an index of two leaves with 3 and
\* 2 distinct entries gives 5 paths.
C17_SitemapTreeFlattened ==
  smPc = "done" /\ smCfg.broken = {} =>
    /\ SeqToSet(smResult) =
         UNION {PathsOfLocs(ReadableLocs(smCfg.sitemap_urls[i], smCfg.docs, {}), smCfg) :
                  i \in DOMAIN smCfg.sitemap_urls}
    /\ \A i, j \in DOMAIN smResult : i < j => KeyLess(smResult[i], smResult[j])
    /\ smCfg.sitemap_urls = << "https://b.io/sitemap.xml" >> => Len(smResult) = 5

C17_Witness ==
  /\ smPc = "done"
  /\ smCfg # NoConfig
  /\ smCfg.broken = {}
  /\ smCfg.sitemap_urls = << "https://b.io/sitemap.xml" >>
  /\ smResult = << "/", "/a", "/c", "/a/b", "/a/d" >>

(***************************************************************************)
(* Properties of normalize_path                                            *)
(***************************************************************************)
\* C12: normalize_path is idempotent: applied to a path it returned, with the
\* same keep_query, it returns that path again.
C12_NormalizeIdempotent ==
  nmPc = "twice" => nmOut2 = nmOut

\* C13: the string normalize_path returns is the percent-decoded path of the
\* URL, followed by "?" and the query only when keep_query is true and the
\* query is not empty; the URL's fragment contributes nothing, so URLs that
\* differ only in their fragment (with keep_query false: only in query or
\* fragment) normalize to the same string.
C13_FragmentAndQueryDropped ==
  nmPc \in {"once", "twice"} =>
    /\ nmOut = unquote(IF nmIn.path = "" THEN "/" ELSE nmIn.path)
                 \o (IF nmIn.keep_query /\ nmIn.query # "" THEN "?" \o nmIn.query ELSE "")
    /\ \A f \in NormFragments :
         normalize_path(ComposeUrl(nmIn.path, nmIn.query, f), nmIn.keep_query) = nmOut
    /\ ~nmIn.keep_query =>
         \A qy \in NormQueries, f \in NormFragments :
           normalize_path(ComposeUrl(nmIn.path, qy, f), FALSE) = nmOut

\* C13 witness: a URL with a query and a fragment that itself holds a "?" was
\* normalized with keep_query false to the bare path.
C13_Witness ==
  /\ nmPc = "once"
  /\ nmIn # NoConfig
  /\ nmIn.path = "/%61"
  /\ nmIn.query = "p=1"
  /\ nmIn.fragment = "s?t"
  /\ ~nmIn.keep_query
  /\ nmOut = "/a"


(***************************************************************************)
(* Properties of the image comparison                                      *)
(***************************************************************************)
\* b is a with white columns added on the right
IsWhiteExtension(a, b) ==
  /\ b.h = a.h
  /\ b.w > a.w
  /\ \A p \in Pixels(b.w, b.h) :
       b.px[p] = (IF p[1] <= a.w THEN a.px[p] ELSE White)

\* canvas has the larger width and the larger height, holds img at the
\* top-left origin and is white everywhere else
IsWhitePadded(canvas, img, other) ==
  /\ canvas.w = Max(img.w, other.w)
  /\ canvas.h = Max(img.h, other.h)
  /\ \A p \in Pixels(canvas.w, canvas.h) :
       canvas.px[p] = (IF p[1] <= img.w /\ p[2] <= img.h THEN img.px[p] ELSE White)

\* C14: for two images of different sizes, pad_to_same_size of each script
\* returns two canvases of the larger width and the larger height with each
\* original at the top-left origin and white everywhere else; so an image
\* compared with its extension by white columns gives the wider width, the
\* common height and no mismatched pixel.
C14_PadsWithWhite ==
  imgPc = "done" =>
    /\ <<imgA.w, imgA.h>> # <<imgB.w, imgB.h>> =>
         /\ IsWhitePadded(pad_to_same_size(imgA, imgB)[1], imgA, imgB)
         /\ IsWhitePadded(pad_to_same_size(imgA, imgB)[2], imgB, imgA)
         /\ IsWhitePadded(vc_pad_to_same_size(imgA, imgB)[1], imgA, imgB)
         /\ IsWhitePadded(vc_pad_to_same_size(imgA, imgB)[2], imgB, imgA)
    /\ IsWhiteExtension(imgA, imgB) =>
         /\ imgOut.width = imgB.w /\ imgOut.height = imgA.h
         /\ imgOut.mismatchedPixels = 0
         /\ imgVc.width = imgB.w /\ imgVc.height = imgA.h
         /\ imgVc.mismatchedPixels = 0


\* C15: for every pair of images, of equal or different dimensions,
\* compute_mismatch_metrics gives the same width, height, mismatchedPixels
\* and mismatchPercentage whichever of the two is passed first.
C15_MetricsSymmetric ==
  imgPc \in {"reversed", "done"} =>
    /\ imgRev.width = imgOut.width
    /\ imgRev.height = imgOut.height
    /\ imgRev.mismatchedPixels = imgOut.mismatchedPixels
    /\ imgRev.mismatchPercentage = imgOut.mismatchPercentage

C15_Witness ==
  /\ imgPc = "reversed"
  /\ imgA.w = 2 /\ imgA.h = 1
  /\ imgB.w = 1 /\ imgB.h = 2
  /\ imgA.px[<<1, 1>>] = White /\ imgB.px[<<1, 1>>] = Red
  /\ imgOut.width = 2 /\ imgOut.height = 2
  /\ imgOut.mismatchedPixels = 3
  /\ imgRev = imgOut

\* the canvas pixels at which the two padded images differ in a channel
DifferingPixels(a, b) ==
  {p \in Pixels(pad_to_same_size(a, b)[1].w, pad_to_same_size(a, b)[1].h) :
     \E ch \in 1..3 :
       pad_to_same_size(a, b)[1].px[p][ch] # pad_to_same_size(a, b)[2].px[p][ch]}

\* C16: an image compared with itself gives no mismatched pixel and 0.0
\* percent, with its own width and height; in general mismatchedPixels is
\* the number of canvas pixels that differ in at least one of the three
\* channels, and lies between 0 and width x height.
C16_IdentityAndCount ==
  imgPc \in {"compared", "reversed", "done"} =>
    /\ imgA = imgB =>
         imgOut = [width |-> imgA.w, height |-> imgA.h,
                   mismatchedPixels |-> 0, mismatchPercentage |-> 0]
    /\ imgOut.mismatchedPixels = Cardinality(DifferingPixels(imgA, imgB))
    /\ imgOut.mismatchedPixels >= 0
    /\ imgOut.mismatchedPixels <= imgOut.width * imgOut.height

C16_Witness ==
  /\ imgPc = "compared"
  /\ imgA = imgB
  /\ imgA.w = 2 /\ imgA.h = 2
  /\ imgA.px[<<1, 1>>] = Red /\ imgA.px[<<2, 2>>] = White
  /\ imgOut.width = 2 /\ imgOut.height = 2
  /\ imgOut.mismatchedPixels = 0
  /\ imgOut.mismatchPercentage = 0


C19_CaptureFailureIsLocal ==
  \/ vcPc = "done"
  \/ vcPc = "raised" /\ ~vcCaptures[Len(vcCaptures)].ok
  =>
    /\ vcReport
    /\ \A i \in DOMAIN VC_PATHS, j \in DOMAIN VIEWPORTS :
         /\ \E k \in DOMAIN vcCaptures :
              /\ vcCaptures[k].path = VC_PATHS[i]
              /\ vcCaptures[k].viewport = VIEWPORTS[j]
              /\ vcCaptures[k].variant = "base"
         /\ (\A v \in {"base", "compare"} :
               [path |-> VC_PATHS[i], viewport |-> VIEWPORTS[j], variant |-> v,
                ok |-> TRUE] \in SeqToSet(vcCaptures))
            => [path |-> VC_PATHS[i], viewport |-> VIEWPORTS[j]] \in SeqToSet(vcResults)


(***************************************************************************)
(* Properties of the difference highlighting                               *)
(***************************************************************************)
\* p and r are distinct pixels that touch by a side or by a corner
Adjacent8(p, r) ==
  /\ p # r
  /\ p[1] - r[1] \in {-1, 0, 1}
  /\ p[2] - r[2] \in {-1, 0, 1}

\* the 8-connected region of mask that holds the pixels of S
RECURSIVE Grow(_, _)
Grow(S, mask) ==
  IF \E p \in mask \ S : \E r \in S : Adjacent8(p, r)
  THEN Grow(S \cup {p \in mask \ S : \E r \in S : Adjacent8(p, r)}, mask)
  ELSE S

Components8(mask) == {Grow({p}, mask) : p \in mask}

\* <<left, top, right, bottom>> of a region
BoundingBox(region) ==
  << CHOOSE x \in {p[1] : p \in region} : \A p \in region : x <= p[1],
     CHOOSE y \in {p[2] : p \in region} : \A p \in region : y <= p[2],
     CHOOSE x \in {p[1] : p \in region} : \A p \in region : x >= p[1],
     CHOOSE y \in {p[2] : p \in region} : \A p \in region : y >= p[2] >>

ShotOrder(full_page) ==
  << "goto", "fonts", "style", "eager" >>
    \o (IF full_page THEN << "scroll" >> ELSE << >>)
    \o << "settle", "wait", "reset", "capture" >>

\* C21: the steps of take_screenshot happen in the order navigation, font
\* wait, style injection, eager images, progressive scroll (exactly when
\* full_page is true), settling delay, image wait, scroll reset, capture: at
\* every point of a call the steps taken so far are a prefix of that order,
\* and a call that returns has taken all of them, the scroll reset last
\* before the capture.
C21_StepsInOrder ==
  InShot /\ shotPc # "none" =>
    /\ Len(trace) <= Len(ShotOrder(rcfg.full_page))
    /\ \A i \in DOMAIN trace : trace[i].step = ShotOrder(rcfg.full_page)[i]
    /\ shotPc = "returned" =>
         /\ Len(trace) = Len(ShotOrder(rcfg.full_page))
         /\ trace[Len(trace)].step = "capture"
         /\ trace[Len(trace) - 1].step = "reset"

C21_Witness ==
  /\ rPc = "compare"
  /\ shotPc = "returned"
  /\ rcfg.full_page
  /\ Len(trace) = 9
  /\ trace[2] = Step("fonts", "PWError")
  /\ trace[5] = Step("scroll", "ok")
  /\ trace[7] = Step("wait", "false")
  /\ trace[8] = Step("reset", "ok")
  /\ trace[9] = Step("capture", "ok")


(***************************************************************************)
(* Properties of the crawl queue                                           *)
(***************************************************************************)
\* C22 as claimed: when crawl_paths has returned, every target that was
\* enqueued has been dequeued exactly once and the queue is empty.
C22_EveryTargetDequeuedOnce ==
  pc = "done" =>
    /\ q = <<>>
    /\ Len(popped) = Len(appended)
    /\ \A i \in DOMAIN popped : popped[i].target = appended[i]

\* C22, amended: targets are dequeued in the order they were enqueued, each
\* enqueue at most once, and the queue holds exactly the enqueued targets
\* not yet dequeued; when crawl_paths returns with fewer than max_pages
\* discovered paths the queue is empty and every enqueued target has been
\* dequeued exactly once.
C22_DequeuedAtMostOnce ==
  pc \in {"seed", "loop", "done"} =>
    /\ Len(popped) <= Len(appended)
    /\ \A i \in DOMAIN popped : popped[i].target = appended[i]
    /\ q = SubSeq(appended, Len(popped) + 1, Len(appended))
    /\ pc = "done" /\ Cardinality(discovered) < cfg.max_pages =>
         q = <<>> /\ Len(popped) = Len(appended)

C22_Witness ==
  /\ pc = "done"
  /\ Cardinality(discovered) < cfg.max_pages
  /\ Len(appended) = 3
  /\ Len(popped) = 3
  /\ q = <<>>
  /\ popped[2].nav = "fail"
  /\ popped[1].nav = "ok" /\ Len(popped[1].added) = 2


\* every <<path, depth>> at which a path has been found so far: depth 0 for
\* the normalized form of a start path, d + 1 for a same-origin link on an
\* expanded page of depth d
FoundAt ==
  {<<normalize_path(urljoin(cfg.base_url, cfg.start_paths[k]), cfg.keep_query), 0>> :
     k \in DOMAIN cfg.start_paths}
  \cup UNION {{<<normalize_path(popped[j].links[a], cfg.keep_query),
                  popped[j].target.depth + 1>> :
                 a \in {b \in DOMAIN popped[j].links :
                          same_origin(popped[j].links[b], OriginOf(cfg.base_url))}} :
               j \in DOMAIN popped}

\* C23: the depth stored with an enqueued path is the smallest depth at
\* which the path has been found (0 for a seed); targets leave the queue in
\* non-decreasing depth order; and a path found again at another depth is
\* not enqueued again, so no path is ever queued with two depths.
C23_ShallowestDepthKept ==
  InCrawl =>
    /\ \E found \in {FoundAt} :
         \A i \in DOMAIN appended :
           /\ <<appended[i].path, appended[i].depth>> \in found
           /\ \A f \in found : f[1] = appended[i].path => appended[i].depth <= f[2]
    /\ \A i, j \in DOMAIN popped :
         i < j => popped[i].target.depth <= popped[j].target.depth
    /\ \A i, j \in DOMAIN appended :
         appended[i].path = appended[j].path =>
           /\ appended[i].depth = appended[j].depth
           /\ i # j => appended[i].depth = 0

\* C23 witness: a path enqueued at depth 1 was found again on a page of
\* depth 1, that is at depth 2, and the crawl has returned
C23_Witness ==
  /\ pc = "done"
  /\ cfg.max_depth = 2
  /\ Cardinality(discovered) < cfg.max_pages
  /\ \E i \in DOMAIN appended :
       /\ appended[i].depth = 1
       /\ {f[2] : f \in {g \in FoundAt : g[1] = appended[i].path}} = {1, 2}


(***************************************************************************)
(* Properties of the discovered set                                        *)
(***************************************************************************)
\* the start paths, normalized, that no exclusion pattern matches
SeedPaths ==
  {p \in {normalize_path(urljoin(cfg.base_url, cfg.start_paths[k]), cfg.keep_query) :
            k \in DOMAIN cfg.start_paths} : ~MatchesExclusion(p)}

\* the anchors of the page the crawl opens for a path
LinksOfPath(p) == PageLinks(cfg.site, urljoin(OriginOf(cfg.base_url), p))

\* the same-origin, non-excluded normalized paths linked from the page of p
LinkedPaths(p) ==
  {r \in {normalize_path(LinksOfPath(p)[a], cfg.keep_query) :
            a \in {b \in DOMAIN LinksOfPath(p) :
                     same_origin(LinksOfPath(p)[b], OriginOf(cfg.base_url))}} :
     ~MatchesExclusion(r)}

\* the paths reachable from a seed by at most n links through pages of through
RECURSIVE ReachWithin(_, _)
ReachWithin(n, through) ==
  IF n = 0 THEN SeedPaths
  ELSE Let(ReachWithin(n - 1, through), LAMBDA R :
         R \cup UNION {LinkedPaths(p) : p \in R \cap through})

\* the paths of the targets whose navigation succeeded
NavigatedPaths ==
  {popped[j].target.path : j \in {k \in DOMAIN popped : popped[k].nav = "ok"}}

\* the paths of the targets whose navigation succeeded and whose anchors
\* were read
ExtractedPaths ==
  {popped[j].target.path :
     j \in {k \in DOMAIN popped : /\ popped[k].nav = "ok"
                                  /\ popped[k].links = LinksOfPath(popped[k].target.path)}}

\* C24 as claimed: a crawl that ends with an empty queue and fewer than
\* max_pages discovered paths has discovered exactly the non-excluded seeds
\* and the same-origin, non-excluded paths reachable from them by at most
\* max_depth links through pages whose navigation succeeded.
C24_DiscoveredIsReachable ==
  pc = "done" /\ q = <<>> /\ Cardinality(discovered) < cfg.max_pages =>
    discovered = ReachWithin(cfg.max_depth, NavigatedPaths)

\* C24, amended: the same, with the chains going through pages whose
\* navigation and link extraction both succeeded.
C24_DiscoveredIsReachableExtracted ==
  pc = "done" /\ q = <<>> /\ Cardinality(discovered) < cfg.max_pages =>
    discovered = ReachWithin(cfg.max_depth, ExtractedPaths)

\* C24 witness: a finished crawl under the cap with an empty queue, two
\* levels of links followed, one navigation failed, and a linked path left
\* undiscovered
C24_Witness ==
  /\ pc = "done"
  /\ q = <<>>
  /\ Cardinality(discovered) < cfg.max_pages
  /\ cfg.max_depth = 2
  /\ \E i \in DOMAIN appended : appended[i].depth = 2
  /\ \E j \in DOMAIN popped : popped[j].nav = "fail"
  /\ discovered = ReachWithin(2, ExtractedPaths)
  /\ \E p \in discovered : ~(LinkedPaths(p) \subseteq discovered)


\* C25: no step of a crawl removes a path from the discovered set, and a
\* path whose navigation failed is in the discovered set ever after and in
\* the list crawl_paths returns.
C25_FailedPathStaysDiscovered ==
  /\ [][discovered \subseteq discovered']_vars
  /\ [](InCrawl =>
          \A j \in DOMAIN popped :
            popped[j].nav = "fail" =>
              /\ popped[j].target.path \in discovered
              /\ pc = "done" => popped[j].target.path \in SeqToSet(result))

\* C25 witness: a crawl has returned a path whose navigation had failed
\* and, after that failure, went on to discover further paths
C25_Witness ==
  /\ pc = "done"
  /\ \E i, j \in DOMAIN popped :
       /\ i < j
       /\ popped[i].nav = "fail"
       /\ popped[i].target.path \in SeqToSet(result)
       /\ popped[j].nav = "ok"
       /\ Len(popped[j].added) > 0


(***************************************************************************)
(* Properties of the image files                                           *)
(***************************************************************************)
\* the captures written so far to the file named f, as indexes of outcomes
WritesTo(f) ==
  {i \in DOMAIN outcomes :
     /\ outcomes[i].ok
     /\ ImageFile(outcomes[i].path, outcomes[i].viewport, outcomes[i].variant) = f}

\* the capture whose image the file named f holds
LastWrite(f) == outcomes[CHOOSE i \in WritesTo(f) : \A j \in WritesTo(f) : j <= i]

\* C26: distinct (path, viewport) pairs have distinct image file names, and
\* when the run has ended the base and compare files of every result record
\* hold the images captured for that record's own path and viewport.
C26_FilesHoldOwnCapture ==
  rPc \in {"done", "raised"} =>
    /\ \A p1, p2 \in Pairs : \A v \in {"base", "compare"} :
         p1 # p2 => ImageFile(p1[1], p1[2], v) # ImageFile(p2[1], p2[2], v)
    /\ \A i \in DOMAIN results : \A v \in {"base", "compare"} :
         /\ WritesTo(ImageFile(results[i].path, results[i].viewport, v)) # {}
         /\ LastWrite(ImageFile(results[i].path, results[i].viewport, v)).path
              = results[i].path
         /\ LastWrite(ImageFile(results[i].path, results[i].viewport, v)).viewport
              = results[i].viewport

====
